---- MODULE Spec2Model ----
(***************************************************************************)
(* Model of run(), the deployment notifier of ms-teams-notifications.      *)
(*                                                                         *)
(* The repository holds two revisions of run() that take a status input:   *)
(*   "main"     src/src/main.ts      (always `git diff-tree ... HEAD`)      *)
(*   "part_000" src/unnamed/part_000 (`git diff last_sha sha` when set)    *)
(* The variable `variant` says which revision a behaviour runs.            *)
(* (src/unnamed/part_001, a revision without the status input, is not      *)
(* part of this model.)                                                     *)
(*                                                                         *)
(* A string is a sequence of tokens.  A token is a character (status       *)
(* input), a whitespace character ("\n", " "), or a run of non-whitespace  *)
(* characters that the code never looks into (a path, a word, a literal).  *)
(*                                                                         *)
(* run() is an async function: every `await` is a suspension point, and    *)
(* an action is the code between two suspension points, the catch block    *)
(* included when that code throws.                                         *)
(***************************************************************************)
EXTENDS Integers, Sequences, FiniteSets, TLC

\* ---------------------------------------------------------------- bounds
\* The longest list of paths the version-control tool reports.
MaxFiles == 11

\* ------------------------------------------------------ program constants
\* part_000: output.trim().split('\n').slice(0, 10)
FileLimit == 10

VARIABLES
  variant,        \* which revision of run() is running
  statusInput,    \* core.getInput('status'), as supplied
  lastSha,        \* core.getInput('last_sha'); <<>> when not supplied
  ref,            \* github.context.ref
  pc,             \* position of run(): the await it is suspended at
  status,         \* const status (lower-cased input)
  commitMessage,  \* let commitMessage
  error,          \* part_000: let error (captured stderr of git diff)
  changedFiles,   \* the joined link lines
  execCalls,      \* the argument lists exec.exec was called with, in order
  execResults,    \* how each of those calls ended, in order
  adaptiveCard,   \* <<>> until the card is built, then <<card>>
  debugs,         \* core.debug messages, in order
  infos,          \* core.info messages, in order
  posts,          \* the fetch() calls made, in order
  response,       \* <<>> until fetch resolves, then <<[status, ok, body]>>
  failed,         \* core.setFailed messages, in order
  trace           \* what run() did, in program order: the calls of
                  \* exec.exec, core.debug, core.info and fetch, the ends of
                  \* the awaited calls, and the errors thrown in the try block

vars == <<variant, statusInput, lastSha, ref, pc, status, commitMessage, error,
          changedFiles, execCalls, execResults, adaptiveCard, debugs, infos,
          posts, response, failed, trace>>

\* ------------------------------------------------------------- strings
Whitespace == {"\n", " "}

UpperCase == <<"A","B","C","D","E","F","G","H","I","J","K","L","M",
               "N","O","P","Q","R","S","T","U","V","W","X","Y","Z">>
LowerCase == <<"a","b","c","d","e","f","g","h","i","j","k","l","m",
               "n","o","p","q","r","s","t","u","v","w","x","y","z">>

LowerChar(c) ==
  IF \E i \in 1..26 : UpperCase[i] = c
    THEN LowerCase[CHOOSE i \in 1..26 : UpperCase[i] = c]
    ELSE c

\* String.prototype.toLowerCase
toLowerCase(s) == [i \in 1..Len(s) |-> LowerChar(s[i])]

RECURSIVE TrimStart(_)
TrimStart(s) ==
  IF s # <<>> /\ Head(s) \in Whitespace THEN TrimStart(Tail(s)) ELSE s

RECURSIVE TrimEnd(_)
TrimEnd(s) ==
  IF s # <<>> /\ s[Len(s)] \in Whitespace
    THEN TrimEnd(SubSeq(s, 1, Len(s) - 1))
    ELSE s

\* String.prototype.trim
trim(s) == TrimEnd(TrimStart(s))

\* String.prototype.split('\n'): the pieces between the separators; the
\* empty string splits into one empty piece.
RECURSIVE SplitFrom(_, _, _)
SplitFrom(s, sep, piece) ==
  IF s = <<>> THEN <<piece>>
  ELSE IF Head(s) = sep THEN <<piece>> \o SplitFrom(Tail(s), sep, <<>>)
  ELSE SplitFrom(Tail(s), sep, Append(piece, Head(s)))

split(s, sep) == SplitFrom(s, sep, <<>>)

\* Array.prototype.slice(0, n)
slice(a, n) == SubSeq(a, 1, IF Len(a) < n THEN Len(a) ELSE n)

\* Array.prototype.filter(file => file): the non-empty strings, in order
RECURSIVE filter(_)
filter(a) ==
  IF a = <<>> THEN <<>>
  ELSE IF Head(a) # <<>> THEN <<Head(a)>> \o filter(Tail(a))
  ELSE filter(Tail(a))

\* Array.prototype.join(sep)
RECURSIVE join(_, _)
join(a, sep) ==
  IF a = <<>> THEN <<>>
  ELSE IF Len(a) = 1 THEN a[1]
  ELSE a[1] \o <<sep>> \o join(Tail(a), sep)

\* String.prototype.replace(pattern, ''): drops the first occurrence
RECURSIVE replace(_, _)
replace(s, pattern) ==
  IF s = <<>> THEN <<>>
  ELSE IF Head(s) = pattern THEN Tail(s)
  ELSE <<Head(s)>> \o replace(Tail(s), pattern)

\* ------------------------------------------------------ the environment
\* jest.mock('@actions/github'): context.repo, actor, sha, runId
owner == "mock-owner"
repo == "mock-repo"
actor == "mock-actor"
commitSha == "mock-sha"
runId == "1234"
teamsWebhook == "https://mock-teams-webhook-url"

Refs == {<<"refs/heads/", "main">>, <<"refs/tags/", "v1">>}

\* The values of the status input the model supplies; <<>> is a status
\* input that was not supplied.
StatusInputs ==
  { <<>>,
    <<"s","u","c","c","e","s","s">>,
    <<"S","u","c","c","e","s","s">>,
    <<"f","a","i","l","u","r","e">>,
    <<"F","A","I","L","U","R","E">>,
    <<"c","a","n","c","e","l","l","e","d">>,
    <<"w","a","r","n","i","n","g">>,
    <<"i","n","v","a","l","i","d","-","v","a","l","u","e">>,
    <<"I","n","v","a","l","i","d">> }

\* The values of the last_sha input: not supplied, or a revision.
LastShas == {<<>>, <<"prev-sha">>}

\* An Error thrown by exec.exec or fetch: its message.
ExecErrors == {<<"Git command failed">>, <<"Test error">>}
FetchErrors == {<<"fetch failed">>}

\* What `git log -1 --pretty=%B` writes to stdout.
LogOutputs ==
  { <<"Fix", " ", "bug", "\n">>,
    <<"\n", " ", "Fix", " ", "bug", "\n", "\n">>,
    <<>> }

\* The paths of the repository.
Paths == <<"file1.txt", "file2.js", "file3.ts">>

\* The path the tool reports in position i of a list that starts after path k.
PathAt(i, k) == Paths[((i + k) % Len(Paths)) + 1]

\* What a name-only diff writes to stdout: one path per line.
RECURSIVE DiffOutputFrom(_, _, _)
DiffOutputFrom(i, n, k) ==
  IF i > n THEN <<>>
  ELSE <<PathAt(i, k), "\n">> \o DiffOutputFrom(i + 1, n, k)

DiffOutput(n, k) == DiffOutputFrom(1, n, k)

\* What git writes to stderr.
StderrOutputs == {<<>>, <<"Mock error message", "\n">>}

\* The webhook's answers.
HttpStatuses == {199, 200, 204, 299, 300, 404, 500}
ResponseBodies == {<<"oops">>, <<>>}

\* Mutant: only 200 counts as success.
okOnly200(st) == st = 200

\* Response.ok
ok(st) == st >= 200 /\ st <= 299

\* ------------------------------------------------------------ the card
repository == <<owner, "/", repo>>

\* const branch = ref.replace('refs/heads/', '')
branch == replace(ref, "refs/heads/")

\* Mutant: the logs link points at the repository's runs, not at this run.
workflowUrlAllRuns ==
  <<"https://github.com/">> \o repository \o <<"/actions/runs/">>

workflowUrl ==
  <<"https://github.com/">> \o repository \o <<"/actions/runs/", runId>>

commitDiffUrl ==
  <<"https://github.com/">> \o repository \o <<"/commit/", commitSha>>

\* Mutant: the link points at the tree view of the branch.
LinkLineTree(file) ==
  <<"* [">> \o file \o <<"](https://github.com/">> \o repository
    \o <<"/tree/">> \o branch \o <<"/">> \o file \o <<")">>

\* `* [${file}](https://github.com/${repository}/blob/${branch}/${file})`
LinkLine(file) ==
  <<"* [">> \o file \o <<"](https://github.com/">> \o repository
    \o <<"/blob/">> \o branch \o <<"/">> \o file \o <<")">>

\* Array.prototype.map(file => link line)
mapLinkLine(files) == [i \in 1..Len(files) |-> LinkLine(files[i])]

\* Mutant: the single-commit list is cut to the first 10 lines as well.
ChangedFilesMainTruncated(changedFilesOutput) ==
  join(mapLinkLine(filter(slice(split(changedFilesOutput, "\n"), 10))), "\n")

\* main.ts: changedFilesOutput.split('\n').filter(file => file).map(..).join('\n')
ChangedFilesMain(changedFilesOutput) ==
  join(mapLinkLine(filter(split(changedFilesOutput, "\n"))), "\n")

\* part_000: const changedFilesOutput = output.trim().split('\n').slice(0, 10)
ChangedFilesOutput(output) == slice(split(trim(output), "\n"), FileLimit)

\* part_000: changedFilesOutput.filter(file => file).map(..).join('\n')
ChangedFilesLastSha(output) ==
  join(mapLinkLine(filter(ChangedFilesOutput(output))), "\n")

S_success == <<"s","u","c","c","e","s","s">>
S_failure == <<"f","a","i","l","u","r","e">>
S_cancelled == <<"c","a","n","c","e","l","l","e","d">>

\* The cases of switch (status) that do not throw.
AcceptedStatuses == {S_success, S_failure, S_cancelled}

\* Mutant: the cancelled case carries the failure case's icon and details.
StatusCardMixed(st) ==
  CASE st = S_success ->
         [cardTitle |-> "**Deployment Successful**",
          cardIcon |-> "U+2705",
          cardDetails |-> "The deployment completed successfully."]
    [] st = S_failure ->
         [cardTitle |-> "**Deployment Failed**",
          cardIcon |-> "U+274C",
          cardDetails |->
            "The deployment encountered errors. Please check the logs for details."]
    [] st = S_cancelled ->
         [cardTitle |-> "**Deployment Cancelled**",
          cardIcon |-> "U+274C",
          cardDetails |->
            "The deployment encountered errors. Please check the logs for details."]

\* switch (status): cardTitle, cardIcon, cardDetails
StatusCard(st) ==
  CASE st = S_success ->
         [cardTitle |-> "**Deployment Successful**",
          cardIcon |-> "U+2705",
          cardDetails |-> "The deployment completed successfully."]
    [] st = S_failure ->
         [cardTitle |-> "**Deployment Failed**",
          cardIcon |-> "U+274C",
          cardDetails |->
            "The deployment encountered errors. Please check the logs for details."]
    [] st = S_cancelled ->
         [cardTitle |-> "**Deployment Cancelled**",
          cardIcon |-> "U+26A0 U+FE0F",
          cardDetails |-> "The deployment was cancelled."]

\* Mutant: the message leaves the status value out.
InvalidStatusMessageNoValue(st) == <<"Invalid job status: ">>

\* default: throw new Error(`Invalid job status: ${status}`)
InvalidStatusMessage(st) == <<"Invalid job status: ">> \o st

Block(type, text, items, facts) ==
  [type |-> type, text |-> text, items |-> items, facts |-> facts]

\* The ColumnSet block: the icon column, then title, details and actor line.
ColumnSet(st) ==
  Block("ColumnSet", <<>>,
        << <<StatusCard(st).cardIcon>>,
           <<StatusCard(st).cardTitle>>,
           <<StatusCard(st).cardDetails>>,
           <<"Ran by [", actor, "](https://github.com/", actor, ")">> >>,
        <<>>)

CardActions ==
  << [id |-> "viewStatus", title |-> "View Deployment Logs",
      url |-> workflowUrl],
     [id |-> "reviewDiffs", title |-> "View commit diffs",
      url |-> commitDiffUrl] >>

BranchFact ==
  [title |-> "Branch:",
   value |-> <<"[">> \o branch \o <<"](https://github.com/">> \o repository
               \o <<"/tree/">> \o branch \o <<")">>]

\* main.ts: the header text starts with the last_sha input
HeaderMain ==
  lastSha \o <<" **Deployment Notification** on [">> \o repository
    \o <<"](https://github.com/">> \o repository \o <<")">>

HeaderPart000 ==
  <<"**Deployment Notification** on [">> \o repository
    \o <<"](https://github.com/">> \o repository \o <<")">>

\* main.ts: factSetData; changedFiles || 'No files changed.'
FactSetMain(cm, cf) ==
  Block("FactSet", <<>>, <<>>,
        << [title |-> "Commit message:", value |-> cm],
           BranchFact,
           [title |-> "Files changed:",
            value |-> IF cf # <<>> THEN cf ELSE <<"No files changed.">>] >>)

\* part_000: factSetData; if (lastSha && changedFiles) facts.push(...)
FactSetPart000(cm, cf) ==
  Block("FactSet", <<>>, <<>>,
        << [title |-> "Commit message:", value |-> cm], BranchFact >>
        \o (IF lastSha # <<>> /\ cf # <<>>
              THEN << [title |-> "Files changed:", value |-> cf] >>
              ELSE <<>>))

\* Mutant: the fact list is pushed for every status.
AdaptiveCardMainAlwaysFacts(st, cm, cf) ==
  [type |-> "message",
   body |-> << Block("TextBlock", HeaderMain, <<>>, <<>>), ColumnSet(st),
               FactSetMain(cm, cf) >>,
   actions |-> CardActions]

\* main.ts: const adaptiveCard, then the push of factSetData on success
AdaptiveCardMain(st, cm, cf) ==
  [type |-> "message",
   body |-> << Block("TextBlock", HeaderMain, <<>>, <<>>), ColumnSet(st) >>
            \o (IF st = S_success THEN <<FactSetMain(cm, cf)>> ELSE <<>>),
   actions |-> CardActions]

\* Mutant: the fact list is pushed only when there are changed files to show.
AdaptiveCardPart000WhenFiles(st, cm, cf) ==
  [type |-> "message",
   body |-> << Block("TextBlock", HeaderPart000, <<>>, <<>>), ColumnSet(st) >>
            \o (IF st = S_success /\ cf # <<>>
                  THEN <<FactSetPart000(cm, cf)>> ELSE <<>>),
   actions |-> CardActions]

\* part_000: const adaptiveCard, then the push of factSetData on success
AdaptiveCardPart000(st, cm, cf) ==
  [type |-> "message",
   body |-> << Block("TextBlock", HeaderPart000, <<>>, <<>>), ColumnSet(st) >>
            \o (IF st = S_success THEN <<FactSetPart000(cm, cf)>> ELSE <<>>),
   actions |-> CardActions]

\* JSON.stringify(value, null, space): the document and its indentation
stringify(value, space) == [json |-> value, space |-> space]

\* ------------------------------------------------------------- run()
Init ==
  /\ variant \in {"main", "part_000"}
  /\ statusInput \in StatusInputs
  /\ lastSha \in LastShas
  /\ ref \in Refs
  /\ pc = "start"
  /\ status = <<>>
  /\ commitMessage = <<>>
  /\ error = <<>>
  /\ changedFiles = <<>>
  /\ execCalls = <<>>
  /\ execResults = <<>>
  /\ adaptiveCard = <<>>
  /\ debugs = <<>>
  /\ infos = <<>>
  /\ posts = <<>>
  /\ response = <<>>
  /\ failed = <<>>
  /\ trace = <<>>

\* How a call of exec.exec ended: the promise resolved with exit code 0
\* after the listeners received stdout and stderr, or it rejected.
Returned(stdout, stderr) ==
  [threw |-> FALSE, message |-> <<>>, stdout |-> stdout, stderr |-> stderr]

Threw(message) ==
  [threw |-> TRUE, message |-> message, stdout |-> <<>>, stderr |-> <<>>]

GitLogArgs == <<"log", "-1", "--pretty=%B">>
GitDiffTreeArgs == <<"diff-tree", "--no-commit-id", "--name-only", "-r", "HEAD">>
GitDiffArgs == <<"diff", "--name-only">> \o lastSha \o <<commitSha>>

SentInfo == <<"Notification sent to Microsoft Teams successfully.">>

InputDebugs(st) ==
  << <<"Status: ">> \o st,
     <<"Last SHA: ">> \o lastSha,
     <<"Teams Webhook: ", teamsWebhook>> >>

\* Mutant: the error is swallowed.
CatchSwallow(message) ==
  /\ failed' = failed
  /\ pc' = "done"

\* catch (error) { if (error instanceof Error) core.setFailed(error.message) }
Catch(message) ==
  /\ failed' = Append(failed, message)
  /\ pc' = "done"

\* fetch(teamsWebhook, { method: 'POST', headers, body })
FetchCall(card) ==
  [url |-> teamsWebhook, method |-> "POST",
   contentType |-> "application/json", body |-> stringify(card, 0)]

\* An entry of trace: the operation, and the position of its argument or
\* result in execCalls, execResults, debugs, infos or posts.
Ev(op, n) == [op |-> op, n |-> n, msg |-> <<>>]

\* An entry of trace: an Error with this message was thrown.
ThrowEv(message) == [op |-> "throw", n |-> 0, msg |-> message]

\* The entries of n consecutive calls of op, the first at position first.
Evs(op, first, n) == [i \in 1..n |-> Ev(op, first + i - 1)]

\* core.getInput(name, { required: true }) of an input that was not supplied
InputRequiredMessage(name) == <<"Input required and not supplied: ", name>>

\* Mutant: the card is traced before the fact list is pushed onto it.
SwitchToFetchTracesEarly(card, dbg, tr) ==
  IF status \in AcceptedStatuses
    THEN /\ adaptiveCard' = <<card>>
         /\ debugs' = Append(dbg,
                stringify([card EXCEPT !.body = SubSeq(card.body, 1, 2)], 2))
         /\ posts' = Append(posts, FetchCall(card))
         /\ trace' = tr \o <<Ev("debug", Len(dbg) + 1), Ev("fetch", Len(posts) + 1)>>
         /\ pc' = "fetch"
         /\ failed' = failed
    ELSE /\ Catch(InvalidStatusMessage(status))
         /\ trace' = Append(tr, ThrowEv(InvalidStatusMessage(status)))
         /\ debugs' = dbg
         /\ UNCHANGED <<adaptiveCard, posts>>

\* The code from switch (status) to the call of fetch: the card for an
\* accepted status is built, traced and sent; the default case throws.
\* dbg and tr are debugs and trace as the code before the switch left them.
SwitchToFetch(card, dbg, tr) ==
  IF status \in AcceptedStatuses
    THEN /\ adaptiveCard' = <<card>>
         /\ debugs' = Append(dbg, stringify(card, 2))
         /\ posts' = Append(posts, FetchCall(card))
         /\ trace' = tr \o <<Ev("debug", Len(dbg) + 1), Ev("fetch", Len(posts) + 1)>>
         /\ pc' = "fetch"
         /\ failed' = failed
    ELSE /\ Catch(InvalidStatusMessage(status))
         /\ trace' = Append(tr, ThrowEv(InvalidStatusMessage(status)))
         /\ debugs' = dbg
         /\ UNCHANGED <<adaptiveCard, posts>>

\* Mutant: `git diff-tree` is started together with `git log`.
MainStartBothGit ==
  /\ variant = "main"
  /\ pc = "start"
  /\ IF statusInput = <<>>
       THEN /\ Catch(InputRequiredMessage("status"))
            /\ trace' = Append(trace, ThrowEv(InputRequiredMessage("status")))
            /\ UNCHANGED <<status, debugs, infos, execCalls>>
       ELSE /\ status' = toLowerCase(statusInput)
            /\ debugs' = debugs \o InputDebugs(toLowerCase(statusInput))
            /\ infos' = Append(infos, <<"Last SHA: ">> \o lastSha)
            /\ execCalls' = execCalls \o <<GitLogArgs, GitDiffTreeArgs>>
            /\ trace' = trace
                 \o << Ev("debug", Len(debugs) + 1), Ev("debug", Len(debugs) + 2),
                       Ev("info", Len(infos) + 1), Ev("debug", Len(debugs) + 3),
                       Ev("exec", Len(execCalls) + 1),
                       Ev("exec", Len(execCalls) + 2) >>
            /\ pc' = "log"
            /\ failed' = failed
  /\ UNCHANGED <<variant, statusInput, lastSha, ref, commitMessage, error,
                 changedFiles, execResults, adaptiveCard, posts, response>>

\* main.ts: from the top of run() to the await of `git log`; getInput
\* throws when the required status input was not supplied
MainStart ==
  /\ variant = "main"
  /\ pc = "start"
  /\ IF statusInput = <<>>
       THEN /\ Catch(InputRequiredMessage("status"))
            /\ trace' = Append(trace, ThrowEv(InputRequiredMessage("status")))
            /\ UNCHANGED <<status, debugs, infos, execCalls>>
       ELSE /\ status' = toLowerCase(statusInput)
            /\ debugs' = debugs \o InputDebugs(toLowerCase(statusInput))
            /\ infos' = Append(infos, <<"Last SHA: ">> \o lastSha)
            /\ execCalls' = Append(execCalls, GitLogArgs)
            /\ trace' = trace
                 \o << Ev("debug", Len(debugs) + 1), Ev("debug", Len(debugs) + 2),
                       Ev("info", Len(infos) + 1), Ev("debug", Len(debugs) + 3),
                       Ev("exec", Len(execCalls) + 1) >>
            /\ pc' = "log"
            /\ failed' = failed
  /\ UNCHANGED <<variant, statusInput, lastSha, ref, commitMessage, error,
                 changedFiles, execResults, adaptiveCard, posts, response>>

\* main.ts: `git log` returned; trim; to the await of `git diff-tree`
MainLogReturns ==
  /\ variant = "main"
  /\ pc = "log"
  /\ \E stdout \in LogOutputs :
       /\ commitMessage' = trim(stdout)
       /\ execResults' = Append(execResults, Returned(stdout, <<>>))
  /\ execCalls' = Append(execCalls, GitDiffTreeArgs)
  /\ trace' = trace \o << Ev("execEnd", Len(execResults) + 1),
                          Ev("exec", Len(execCalls) + 1) >>
  /\ pc' = "diff"
  /\ UNCHANGED <<variant, statusInput, lastSha, ref, status, error,
                 changedFiles, adaptiveCard, debugs, infos, posts, response,
                 failed>>

\* main.ts: `git diff-tree` returned; the link lines, the switch, the card,
\* its trace, to the await of fetch
MainDiffTreeReturns ==
  /\ variant = "main"
  /\ pc = "diff"
  /\ \E n \in 0..MaxFiles, k \in 1..Len(Paths) :
       /\ execResults' = Append(execResults, Returned(DiffOutput(n, k), <<>>))
       /\ changedFiles' = ChangedFilesMain(DiffOutput(n, k))
       /\ SwitchToFetch(
            AdaptiveCardMain(status, commitMessage,
                             ChangedFilesMain(DiffOutput(n, k))),
            debugs,
            Append(trace, Ev("execEnd", Len(execResults) + 1)))
  /\ UNCHANGED <<variant, statusInput, lastSha, ref, status, commitMessage,
                 error, execCalls, infos, response>>

\* Mutant: the status is checked as soon as it is read.
Part000StartChecksStatus ==
  /\ variant = "part_000"
  /\ pc = "start"
  /\ IF statusInput = <<>>
       THEN /\ Catch(InputRequiredMessage("status"))
            /\ trace' = Append(trace, ThrowEv(InputRequiredMessage("status")))
            /\ UNCHANGED <<status, debugs, execCalls>>
       ELSE IF toLowerCase(statusInput) \notin AcceptedStatuses
         THEN /\ status' = toLowerCase(statusInput)
              /\ Catch(InvalidStatusMessage(toLowerCase(statusInput)))
              /\ trace' = Append(trace,
                     ThrowEv(InvalidStatusMessage(toLowerCase(statusInput))))
              /\ UNCHANGED <<debugs, execCalls>>
         ELSE /\ status' = toLowerCase(statusInput)
              /\ debugs' = debugs \o InputDebugs(toLowerCase(statusInput))
              /\ execCalls' = Append(execCalls, GitLogArgs)
              /\ trace' = trace \o Evs("debug", Len(debugs) + 1, 3)
                                \o <<Ev("exec", Len(execCalls) + 1)>>
              /\ pc' = "log"
              /\ failed' = failed
  /\ UNCHANGED <<variant, statusInput, lastSha, ref, commitMessage, error,
                 changedFiles, execResults, adaptiveCard, infos, posts,
                 response>>

\* part_000: from the top of run() to the await of `git log`; getInput
\* throws when the required status input was not supplied
Part000Start ==
  /\ variant = "part_000"
  /\ pc = "start"
  /\ IF statusInput = <<>>
       THEN /\ Catch(InputRequiredMessage("status"))
            /\ trace' = Append(trace, ThrowEv(InputRequiredMessage("status")))
            /\ UNCHANGED <<status, debugs, execCalls>>
       ELSE /\ status' = toLowerCase(statusInput)
            /\ debugs' = debugs \o InputDebugs(toLowerCase(statusInput))
            /\ execCalls' = Append(execCalls, GitLogArgs)
            /\ trace' = trace \o Evs("debug", Len(debugs) + 1, 3)
                              \o <<Ev("exec", Len(execCalls) + 1)>>
            /\ pc' = "log"
            /\ failed' = failed
  /\ UNCHANGED <<variant, statusInput, lastSha, ref, commitMessage, error,
                 changedFiles, execResults, adaptiveCard, infos, posts,
                 response>>

\* part_000: `git log` returned; trim; if (lastSha) to the await of
\* `git diff`, else straight on to the switch, the card and the fetch
Part000LogReturns ==
  /\ variant = "part_000"
  /\ pc = "log"
  /\ \E stdout \in LogOutputs :
       /\ commitMessage' = trim(stdout)
       /\ execResults' = Append(execResults, Returned(stdout, <<>>))
       /\ IF lastSha # <<>>
            THEN /\ execCalls' = Append(execCalls, GitDiffArgs)
                 /\ trace' = trace \o << Ev("execEnd", Len(execResults) + 1),
                                         Ev("exec", Len(execCalls) + 1) >>
                 /\ pc' = "diff"
                 /\ UNCHANGED <<adaptiveCard, debugs, posts, failed>>
            ELSE /\ SwitchToFetch(
                      AdaptiveCardPart000(status, trim(stdout), changedFiles),
                      debugs,
                      Append(trace, Ev("execEnd", Len(execResults) + 1)))
                 /\ UNCHANGED execCalls
  /\ UNCHANGED <<variant, statusInput, lastSha, ref, status, error,
                 changedFiles, infos, response>>

\* part_000: `git diff` returned with exit code 0; stdout and stderr were
\* captured; the first 10 lines, the link lines, the switch, the card, fetch
Part000DiffReturns ==
  /\ variant = "part_000"
  /\ pc = "diff"
  /\ \E n \in 0..MaxFiles, k \in 1..Len(Paths), stderr \in StderrOutputs :
       /\ execResults' = Append(execResults, Returned(DiffOutput(n, k), stderr))
       /\ error' = stderr
       /\ changedFiles' = ChangedFilesLastSha(DiffOutput(n, k))
       /\ SwitchToFetch(
            AdaptiveCardPart000(status, commitMessage,
                                ChangedFilesLastSha(DiffOutput(n, k))),
            Append(debugs,
                   <<"Changed Files: ">>
                     \o join(ChangedFilesOutput(DiffOutput(n, k)), ", ")),
            trace \o << Ev("execEnd", Len(execResults) + 1),
                        Ev("debug", Len(debugs) + 1) >>)
  /\ UNCHANGED <<variant, statusInput, lastSha, ref, status, commitMessage,
                 execCalls, infos, response>>

\* Mutant: the failure signal carries a fixed text, not the error's message.
ExecThrowsFixedText ==
  /\ pc \in {"log", "diff"}
  /\ \E message \in ExecErrors :
       /\ execResults' = Append(execResults, Threw(message))
       /\ trace' = trace \o << Ev("execEnd", Len(execResults) + 1),
                               ThrowEv(message) >>
       /\ Catch(<<"Action failed">>)
  /\ UNCHANGED <<variant, statusInput, lastSha, ref, status, commitMessage,
                 error, changedFiles, execCalls, adaptiveCard, debugs, infos,
                 posts, response>>

\* exec.exec rejects (the process cannot run or exits non-zero): caught
ExecThrows ==
  /\ pc \in {"log", "diff"}
  /\ \E message \in ExecErrors :
       /\ execResults' = Append(execResults, Threw(message))
       /\ trace' = trace \o << Ev("execEnd", Len(execResults) + 1),
                               ThrowEv(message) >>
       /\ Catch(message)
  /\ UNCHANGED <<variant, statusInput, lastSha, ref, status, commitMessage,
                 error, changedFiles, execCalls, adaptiveCard, debugs, infos,
                 posts, response>>

\* Mutant: the confirmation is logged before response.ok is looked at.
FetchReturnsInfoFirst ==
  /\ pc = "fetch"
  /\ \E st \in HttpStatuses, body \in ResponseBodies :
       /\ response' = <<[status |-> st, ok |-> ok(st), body |-> body]>>
       /\ infos' = Append(infos, SentInfo)
       /\ trace' = trace \o << Ev("fetchEnd", Len(posts)),
                               Ev("info", Len(infos) + 1) >>
       /\ pc' = IF ok(st) THEN "done" ELSE "text"
  /\ UNCHANGED <<variant, statusInput, lastSha, ref, status, commitMessage,
                 error, changedFiles, execCalls, execResults, adaptiveCard,
                 debugs, posts, failed>>

\* fetch resolved: if (!response.ok) to the await of response.text(),
\* else core.info and the end of run()
FetchReturns ==
  /\ pc = "fetch"
  /\ \E st \in HttpStatuses, body \in ResponseBodies :
       /\ response' = <<[status |-> st, ok |-> ok(st), body |-> body]>>
       /\ IF ok(st)
            THEN /\ infos' = Append(infos, SentInfo)
                 /\ trace' = trace \o << Ev("fetchEnd", Len(posts)),
                                         Ev("info", Len(infos) + 1) >>
                 /\ pc' = "done"
            ELSE /\ pc' = "text"
                 /\ trace' = Append(trace, Ev("fetchEnd", Len(posts)))
                 /\ UNCHANGED infos
  /\ UNCHANGED <<variant, statusInput, lastSha, ref, status, commitMessage,
                 error, changedFiles, execCalls, execResults, adaptiveCard,
                 debugs, posts, failed>>

\* Mutant: the message leaves the response body out.
FailedToSendMessageNoBody(st, errorText) ==
  <<"Failed to send notification. HTTP ", ToString(st)>>

\* `Failed to send notification. HTTP ${response.status}: ${errorText}`
FailedToSendMessage(st, errorText) ==
  <<"Failed to send notification. HTTP ", ToString(st), ": ">> \o errorText

\* response.text() resolved with the body: throw new Error(...), caught
TextReturns ==
  /\ pc = "text"
  /\ Catch(FailedToSendMessage(response[1].status, response[1].body))
  /\ trace' = Append(trace,
                     ThrowEv(FailedToSendMessage(response[1].status,
                                                 response[1].body)))
  /\ UNCHANGED <<variant, statusInput, lastSha, ref, status, commitMessage,
                 error, changedFiles, execCalls, execResults, adaptiveCard,
                 debugs, infos, posts, response>>

\* Mutant: a rejected fetch is tried again.
FetchThrowsRetry ==
  /\ pc = "fetch"
  /\ Len(posts) < 3
  /\ posts' = Append(posts, posts[Len(posts)])
  /\ UNCHANGED <<variant, statusInput, lastSha, ref, pc, status, commitMessage,
                 error, changedFiles, execCalls, execResults, adaptiveCard,
                 debugs, infos, response, failed, trace>>

\* fetch rejects (DNS, connection refused, ...): caught
FetchThrows ==
  /\ pc = "fetch"
  /\ \E message \in FetchErrors :
       /\ Catch(message)
       /\ trace' = trace \o <<Ev("fetchEnd", Len(posts)), ThrowEv(message)>>
  /\ UNCHANGED <<variant, statusInput, lastSha, ref, status, commitMessage,
                 error, changedFiles, execCalls, execResults, adaptiveCard,
                 debugs, infos, posts, response>>

Next ==
  \/ MainStart
  \/ MainLogReturns
  \/ MainDiffTreeReturns
  \/ Part000Start
  \/ Part000LogReturns
  \/ Part000DiffReturns
  \/ ExecThrows
  \/ FetchReturns
  \/ TextReturns
  \/ FetchThrows

Spec == Init /\ [][Next]_vars

\* ------------------------------------------------------ the properties
S_warning == <<"w","a","r","n","i","n","g">>

\* The status values the specification's data model lists.
ListedStatuses == {S_success, S_failure, S_cancelled, S_warning}

InSeq(x, seq) == \E i \in 1..Len(seq) : seq[i] = x

\* text occurs in message
Contains(message, text) ==
  \E i \in 0..(Len(message) - Len(text)) :
    SubSeq(message, i + 1, i + Len(text)) = text

ExecThrew == \E i \in 1..Len(execResults) : execResults[i].threw

\* The paths a name-only diff reported, in the order it reported them.
ReportedPaths(stdout) ==
  LET names == SelectSeq(stdout, LAMBDA t : t # "\n")
  IN  [i \in 1..Len(names) |-> <<names[i]>>]

\* The link lines of a list of paths, joined.
LinkLines(paths) == join(mapLinkLine(paths), "\n")

\* The number of link lines in a joined list.
EntryCount(value) == Cardinality({i \in 1..Len(value) : value[i] = "* ["})

\* The ColumnSet items of a posted card: icon, title, details, actor line.
PostedItems(i) == posts[i].body.json.body[2].items

\* The facts of a posted card titled 'Files changed:'.
FilesChangedFacts(i) ==
  LET blocks == posts[i].body.json.body
  IN  IF Len(blocks) < 3 THEN <<>>
      ELSE SelectSeq(blocks[3].facts, LAMBDA f : f.title = "Files changed:")

C2_NonOkResponseFails ==
  (response # <<>> /\ ~(response[1].status \in 200..299))
    => /\ ~InSeq(SentInfo, infos)
       /\ pc \in {"text", "done"}
       /\ pc = "done"
            => failed = << <<"Failed to send notification. HTTP ",
                             ToString(response[1].status), ": ">>
                           \o response[1].body >>

C2_Witness ==
  /\ pc = "done"
  /\ response # <<>>
  /\ response[1].status = 500
  /\ failed = << <<"Failed to send notification. HTTP ", "500", ": ", "oops">> >>

\* C3: when the POST returns a status in 200..299, the run raises no failure
\* signal and emits the confirmation that the notification was sent.
C3_OkResponseSucceeds ==
  (response # <<>> /\ response[1].status \in 200..299)
    => /\ failed = <<>>
       /\ InSeq(SentInfo, infos)
       /\ pc = "done"

C3_Witness ==
  /\ pc = "done"
  /\ response # <<>>
  /\ response[1].status = 204
  /\ InSeq(SentInfo, infos)

\* C4: a run never issues more than one POST, and once it has reached
\* delivery it has issued exactly one, to the configured webhook URL; after a
\* non-success response or a transport exception there is still only one.
C4_ExactlyOnePost ==
  /\ Len(posts) <= 1
  /\ adaptiveCard # <<>>
       => /\ Len(posts) = 1
          /\ posts[1].url = teamsWebhook
          /\ posts[1].method = "POST"

C4_Witness ==
  /\ pc = "done"
  /\ failed = << <<"fetch failed">> >>
  /\ Len(posts) = 1

\* C5: when exec.exec throws, at the commit-message fetch or at the diff, the
\* run ends with the failure signal carrying that error's text, and no card
\* is POSTed.
C5_ExecThrowFails ==
  \A i \in 1..Len(execResults) :
    execResults[i].threw
      => /\ pc = "done"
         /\ failed = <<execResults[i].message>>
         /\ posts = <<>>

C5_Witness ==
  /\ Len(execResults) = 2
  /\ execResults[2].threw
  /\ failed = << <<"Test error">> >>

\* C6 (as stated): when last_sha is supplied and the two-revision diff writes
\* text to its error stream, the run ends with a failure signal whose message
\* contains that text, even though the process returned exit code 0.
C6_StderrFails ==
  \A i \in 1..Len(execResults) :
    (pc = "done" /\ lastSha # <<>> /\ execCalls[i][1] = "diff"
       /\ ~execResults[i].threw /\ execResults[i].stderr # <<>>)
      => \E j \in 1..Len(failed) :
           Contains(failed[j], trim(execResults[i].stderr))

\* C7: for status success, failure and cancelled, every posted card carries
\* that status's icon, title and detail sentence, and those of no other.
C7_StatusTriple ==
  \A i \in 1..Len(posts) :
    /\ status \in {S_success, S_failure, S_cancelled}
    /\ status = S_success
         => /\ PostedItems(i)[1] = <<"U+2705">>
            /\ PostedItems(i)[2] = <<"**Deployment Successful**">>
            /\ PostedItems(i)[3] = <<"The deployment completed successfully.">>
    /\ status = S_failure
         => /\ PostedItems(i)[1] = <<"U+274C">>
            /\ PostedItems(i)[2] = <<"**Deployment Failed**">>
            /\ PostedItems(i)[3] =
                 <<"The deployment encountered errors. Please check the logs for details.">>
    /\ status = S_cancelled
         => /\ PostedItems(i)[1] = <<"U+26A0 U+FE0F">>
            /\ PostedItems(i)[2] = <<"**Deployment Cancelled**">>
            /\ PostedItems(i)[3] = <<"The deployment was cancelled.">>

C7_Witness ==
  /\ Len(posts) = 1
  /\ statusInput = <<"F","A","I","L","U","R","E">>
  /\ PostedItems(1)[2] = <<"**Deployment Failed**">>

\* C8 (as stated): warning is an accepted status: a run with status warning
\* in which git returns normally POSTs a card titled 'Deployment Warning',
\* and with a success response raises no failure signal.
C8_WarningAccepted ==
  (pc = "done" /\ status = S_warning /\ ~ExecThrew)
    => /\ Len(posts) = 1
       /\ PostedItems(1)[2] = <<"**Deployment Warning**">>
       /\ (response # <<>> /\ response[1].status \in 200..299) => failed = <<>>

\* C9 (as stated): when last_sha is supplied, the changed-file list is
\* computed by one diff between last_sha and the current commit SHA, and the
\* list placed in the card is the first 10 reported paths, in reported order.
C9_LastShaDiff ==
  (lastSha # <<>> /\ adaptiveCard # <<>>)
    => /\ execCalls = << GitLogArgs,
                         <<"diff", "--name-only">> \o lastSha \o <<commitSha>> >>
       /\ changedFiles =
            LinkLines(slice(ReportedPaths(execResults[2].stdout), FileLimit))
       /\ \A f \in 1..Len(FilesChangedFacts(1)) :
            /\ FilesChangedFacts(1)[f].value = changedFiles
            /\ EntryCount(FilesChangedFacts(1)[f].value) <= FileLimit

C11_NoFilesChangedFallback ==
  \A i \in 1..Len(posts) :
    (status = S_success /\ changedFiles = <<>>)
      => FilesChangedFacts(i)
           = << [title |-> "Files changed:", value |-> <<"No files changed.">>] >>

\* C12 (as stated): when the last_sha input is not provided, no posted card
\* has a 'Files changed:' fact.
C12_NoLastShaNoFilesFact ==
  \A i \in 1..Len(posts) :
    lastSha = <<>> => FilesChangedFacts(i) = <<>>

\* The blocks of the body of a posted card.
PostedBody(i) == posts[i].body.json.body

\* C13: every card posted for status success has the fact list, and the list
\* holds the commit-message fact and the branch-link fact.
C13_SuccessFactList ==
  \A i \in 1..Len(posts) :
    status = S_success
      => /\ Len(PostedBody(i)) = 3
         /\ PostedBody(i)[3].type = "FactSet"
         /\ Len(PostedBody(i)[3].facts) >= 2
         /\ PostedBody(i)[3].facts[1]
              = [title |-> "Commit message:", value |-> commitMessage]
         /\ PostedBody(i)[3].facts[2]
              = [title |-> "Branch:",
                 value |-> <<"[">> \o branch
                             \o <<"](https://github.com/", "mock-owner", "/",
                                  "mock-repo", "/tree/">>
                             \o branch \o <<")">>]

C13_Witness ==
  /\ Len(posts) = 1
  /\ status = S_success
  /\ variant = "part_000"
  /\ changedFiles = <<>>
  /\ commitMessage = <<"Fix", " ", "bug">>
  /\ Len(PostedBody(1)[3].facts) = 2

\* C14: every posted card has exactly two action links: 'View Deployment
\* Logs', to the CI run of this repository and run id, and 'View commit
\* diffs', to the commit of this repository and commit SHA.
C14_TwoActionLinks ==
  \A i \in 1..Len(posts) :
    LET actions == posts[i].body.json.actions
    IN  /\ status \in AcceptedStatuses
        /\ Len(actions) = 2
        /\ actions[1].title = "View Deployment Logs"
        /\ actions[1].url = <<"https://github.com/", "mock-owner", "/",
                              "mock-repo", "/actions/runs/", "1234">>
        /\ actions[2].title = "View commit diffs"
        /\ actions[2].url = <<"https://github.com/", "mock-owner", "/",
                              "mock-repo", "/commit/", "mock-sha">>

C14_Witness ==
  /\ Len(posts) = 1
  /\ status = S_cancelled
  /\ Len(posts[1].body.json.actions) = 2

\* The messages of the errors thrown in the try block, in order.
Thrown(tr) ==
  LET throws == SelectSeq(tr, LAMBDA e : e.op = "throw")
  IN  [i \in 1..Len(throws) |-> throws[i].msg]

\* C15: an error thrown at any stage (input reading, git invocation, status
\* validation, transport exception, non-success response) ends the run at
\* once: it is the only error of the run, the failure signal is raised
\* exactly once with that error's message, the step that throws starts no
\* git invocation and no POST, and no step follows it.
C15_ErrorCaughtOnce ==
  [][ /\ Thrown(trace) = <<>>
      /\ Len(Thrown(trace')) <= 1
      /\ failed' = Thrown(trace')
      /\ Thrown(trace') # <<>>
           => /\ pc' = "done"
              /\ execCalls' = execCalls
              /\ posts' = posts ]_vars

C15_Witness ==
  /\ pc = "done"
  /\ Thrown(trace) = << <<"fetch failed">> >>
  /\ failed = << <<"fetch failed">> >>
  /\ response = <<>>

\* The run was given a status outside success, failure and cancelled.
UnsupportedStatus ==
  /\ statusInput # <<>>
  /\ toLowerCase(statusInput) \notin {S_success, S_failure, S_cancelled}

\* C16 as stated: a run with an unsupported status fails before any I/O, so
\* at its end no git invocation and no HTTP call has been made.
C16_InvalidStatusBeforeIO ==
  (UnsupportedStatus /\ pc = "done") => (execCalls = <<>> /\ posts = <<>>)

\* C16 amended: an unsupported status is detected before any HTTP call but
\* after the git invocations: no POST is ever issued, and when the status is
\* rejected `git log` (and the diff, where the revision runs one) has been
\* invoked and has returned.
C16_InvalidStatusAfterGit ==
  UnsupportedStatus =>
    /\ posts = <<>>
    /\ \A k \in 1..Len(trace) : trace[k].op # "fetch"
    /\ InSeq(InvalidStatusMessage(toLowerCase(statusInput)), failed)
         => /\ Len(execCalls) = (IF variant = "main" \/ lastSha # <<>>
                                   THEN 2 ELSE 1)
            /\ execCalls[1] = GitLogArgs
            /\ Len(execResults) = Len(execCalls)
            /\ \A i \in 1..Len(execResults) : ~execResults[i].threw
            /\ trace[Len(trace)].op = "throw"
            /\ trace[Len(trace) - 1].op \in {"execEnd", "debug"}

C16_Witness ==
  /\ pc = "done"
  /\ variant = "main"
  /\ statusInput = <<"I", "n", "v", "a", "l", "i", "d">>
  /\ failed = << <<"Invalid job status: ", "i", "n", "v", "a", "l", "i", "d">> >>
  /\ Len(execResults) = 2

\* The git invocations and the HTTP call of a run, as started and ended.
StageOps(tr) ==
  LET stages == SelectSeq(tr, LAMBDA e :
                    e.op \in {"exec", "execEnd", "fetch", "fetchEnd"})
  IN  [i \in 1..Len(stages) |-> stages[i].op]

IsPrefix(a, b) == Len(a) <= Len(b) /\ a = SubSeq(b, 1, Len(a))

SuccessSignal == InSeq(SentInfo, infos)
FailureSignal == failed # <<>>

\* C18: a run that ended shows the success confirmation or the failure
\* signal, never both and never neither; the confirmation only after the one
\* POST was answered with a status of 200..299, and otherwise one failure
\* signal whose text is the message of the error that was thrown.
C18_ExactlyOneOutcome ==
  pc = "done" =>
    /\ SuccessSignal # FailureSignal
    /\ SuccessSignal
         => /\ Len(posts) = 1
            /\ response # <<>>
            /\ response[1].status \in 200..299
    /\ FailureSignal
         => /\ Len(failed) = 1
            /\ failed = Thrown(trace)
    /\ (response = <<>> \/ response[1].status \notin 200..299) => FailureSignal

C18_Witness ==
  /\ pc = "done"
  /\ response # <<>>
  /\ response[1].status = 300
  /\ FailureSignal
  /\ ~SuccessSignal

\* The position in tr of the last core.debug call before position k.
LastDebugBefore(tr, k) ==
  CHOOSE j \in 1..(k - 1) :
    /\ tr[j].op = "debug"
    /\ \A m \in (j + 1)..(k - 1) : tr[m].op # "debug"

\* C19: whenever a POST has been issued, the last debug message before it is
\* the card serialised with an indentation of 2, and the document of that
\* message is the card built by the run and the document sent as the POST
\* body (serialised without indentation).
C19_CardTracedBeforePost ==
  \A k \in 1..Len(trace) :
    trace[k].op = "fetch" =>
      /\ \E j \in 1..(k - 1) : trace[j].op = "debug"
      /\ LET traced == debugs[trace[LastDebugBefore(trace, k)].n]
             sent   == posts[trace[k].n].body
         IN  /\ traced.space = 2
             /\ sent.space = 0
             /\ traced.json = sent.json
             /\ traced.json = adaptiveCard[1]

C19_Witness ==
  /\ pc = "fetch"
  /\ variant = "main"
  /\ status = S_success
  /\ changedFiles # <<>>
  /\ Len(posts) = 1
  /\ debugs[Len(debugs)] = stringify(adaptiveCard[1], 2)
  /\ trace[Len(trace)].op = "fetch"

\* The changed-file sequence of a run whose diff returned: every path the
\* diff reported (main.ts), the first FileLimit of them (part_000).
ChangedFileSequence ==
  LET paths == ReportedPaths(execResults[2].stdout)
  IN  IF variant = "main" \/ Len(paths) <= FileLimit
        THEN paths
        ELSE SubSeq(paths, 1, FileLimit)

\* The ref without a leading refs/heads/.
BranchName == IF ref[1] = "refs/heads/" THEN Tail(ref) ELSE ref

\* One link line per path, in order, a newline between two lines.
RECURSIVE ExpectedLinkLines(_)
ExpectedLinkLines(paths) ==
  IF paths = <<>> THEN <<>>
  ELSE <<"* [">> \o paths[1]
         \o <<"](https://github.com/", "mock-owner", "/", "mock-repo", "/blob/">>
         \o BranchName \o <<"/">> \o paths[1] \o <<")">>
         \o (IF Len(paths) = 1 THEN <<>>
             ELSE <<"\n">> \o ExpectedLinkLines(Tail(paths)))

\* C20: in a card posted for status success after the diff returned a
\* non-empty changed-file sequence, the one 'Files changed:' fact has as value
\* one link line `* [path](https://github.com/<owner>/<repo>/blob/<branch>/path)`
\* per path of the sequence, in the order of the sequence, joined by
\* newlines, and nothing else.
C20_LinkLinePerPath ==
  \A i \in 1..Len(posts) :
    (status = S_success /\ Len(execResults) = 2)
      => (ChangedFileSequence # <<>>
            => FilesChangedFacts(i)
                 = << [title |-> "Files changed:",
                       value |-> ExpectedLinkLines(ChangedFileSequence)] >>)

C20_Witness ==
  /\ Len(posts) = 1
  /\ status = S_success
  /\ variant = "part_000"
  /\ ref = <<"refs/heads/", "main">>
  /\ Len(execResults) = 2
  /\ ChangedFileSequence = << <<"file3.ts">>, <<"file1.txt">>, <<"file2.js">> >>
  /\ FilesChangedFacts(1)[1].value
       = ExpectedLinkLines(<< <<"file3.ts">>, <<"file1.txt">>, <<"file2.js">> >>)

\* The facts of block b of posted card i.
FactsOf(i, b) == PostedBody(i)[b].facts

\* C21: a card posted for status failure or cancelled is the header and the
\* ColumnSet only: it has no FactSet block and no fact (no commit message, no
\* branch link, no changed-files list); a card that has a FactSet block or
\* any fact was posted for status success.
C21_FactsOnlyOnSuccess ==
  \A i \in 1..Len(posts) :
    /\ status \in {S_failure, S_cancelled}
         => /\ Len(PostedBody(i)) = 2
            /\ PostedBody(i)[1].type = "TextBlock"
            /\ PostedBody(i)[2].type = "ColumnSet"
            /\ \A b \in 1..Len(PostedBody(i)) :
                 /\ PostedBody(i)[b].type # "FactSet"
                 /\ FactsOf(i, b) = <<>>
    /\ (\E b \in 1..Len(PostedBody(i)) :
          PostedBody(i)[b].type = "FactSet" \/ FactsOf(i, b) # <<>>)
         => status = S_success

C21_Witness ==
  /\ Len(posts) = 1
  /\ variant = "main"
  /\ status = S_failure
  /\ changedFiles # <<>>
  /\ commitMessage # <<>>
  /\ Len(PostedBody(1)) = 2

\* The header text of the card the same revision posts when last_sha is not
\* supplied (main.ts interpolates the empty input before the leading space).
HeaderNoLastSha ==
  (IF variant = "main" THEN <<" **Deployment Notification** on [">>
                       ELSE <<"**Deployment Notification** on [">>)
    \o <<"mock-owner", "/", "mock-repo", "](https://github.com/",
         "mock-owner", "/", "mock-repo", ")">>

\* The facts of posted card i other than the changed-files fact.
OtherFacts(i) ==
  IF Len(PostedBody(i)) < 3 THEN <<>>
  ELSE SelectSeq(PostedBody(i)[3].facts,
                 LAMBDA fact : fact.title # "Files changed:")

\* C22: last_sha shows in a posted card at most through the changed-files
\* fact: whatever last_sha is, the header text is the one of the run without
\* last_sha, the icon, title, detail and actor line depend on the status
\* only, the other facts are the commit message and the branch link, and the
\* action links are those of the run and the commit.  Two runs that differ
\* only in last_sha then post cards equal in all these parts.
C22_LastShaOnlyInFilesFact ==
  \A i \in 1..Len(posts) :
    /\ PostedBody(i)[1].type = "TextBlock"
    /\ PostedBody(i)[1].text = HeaderNoLastSha
    /\ PostedBody(i)[2] = ColumnSet(status)
    /\ Len(PostedBody(i)) = (IF status = S_success THEN 3 ELSE 2)
    /\ OtherFacts(i)
         = (IF status = S_success
              THEN << [title |-> "Commit message:", value |-> commitMessage],
                      [title |-> "Branch:",
                       value |-> <<"[">> \o BranchName
                                   \o <<"](https://github.com/", "mock-owner",
                                        "/", "mock-repo", "/tree/">>
                                   \o BranchName \o <<")">>] >>
              ELSE <<>>)
    /\ posts[i].body.json.actions = CardActions

====
